---------------------------- MODULE Spec2Model ----------------------------
(***************************************************************************)
(* PacketRusher web controller (roastedbeans/ue-registration).             *)
(*                                                                         *)
(* The repository holds several generations of the same server.  Two of    *)
(* them are modelled here, selected by the variable `variant`:             *)
(*   "sequential"  the Express/HTMX server of src/server.js 483-1098:      *)
(*                 POST /api/sessions/start, POST /api/sessions/stop,      *)
(*                 runSequentialUEs, updateConfig, runSingleUE;            *)
(*   "direct"      the direct-execution server of src/server.js 1100-1673: *)
(*                 POST /run, runPacketRusher.                             *)
(* A step of the model is one turn of the Node.js event loop: a callback   *)
(* runs to completion, together with the promise continuations it wakes.   *)
(***************************************************************************)
EXTENDS Integers, Sequences, FiniteSets

VARIABLES
    variant,      \* which server program is running
    serverState,  \* server.js 521-535 (the fields the orchestrator uses)
    configMsin,   \* ue.msin of config.yml, a 10 character string
    loops,        \* one entry per accepted start: its runSequentialUEs call
    reqs,         \* one entry per POST /run request of the direct server
    proc,         \* per loop call / request: its latest Process Runner
                  \* invocation (the child and the promise)
    nStarts,      \* number of start requests accepted / POST /run received
    budget,       \* how many such requests the environment sends in all
    response,     \* HTTP status of the latest answer of the sequential server
    logs,         \* serverState.sessionLogs and serverState.packetrusherLogs
    ident,        \* the identifier sequencer: a base, the offset applied so
                  \* far and the identifier derived step by step
    ws,           \* wsClients, each observer's connection and what it got
    cli,          \* one invocation of cli.sh: its command line and progress
    page,         \* the page of the multi-UE interval client
    single,       \* the page of the single-UE interval client
    launch        \* one runPacketRusher call of the terminal-launching server

vars ==
    <<variant, serverState, configMsin, loops, reqs, proc, nStarts, budget,
      response, logs, ident, ws, cli, page, single, launch>>

---------------------------------------------------------------------------
(* Bounds of the model. *)

MaxRuns == 2      \* start requests accepted (sequential) / requests (direct)
FewRuns == 1      \* the same, in the specification FewSpec
MaxCount == 2     \* largest ueCount a request carries
MaxOffset == 12   \* largest total offset the identifier sequencer is given
MaxLogs == 102    \* entries added to one log buffer between two clears
FewLogs == 1      \* the same, in the specification ClearSpec

(* Program constants. *)

MSIN_WIDTH == 10  \* padStart(10, "0"), msinBase.length !== 10
IMSI_LENGTH == 15 \* imsi.length !== 15
MAX_UE_COUNT == 100000
LOG_CAP == 100    \* sessionLogs.length > 100, slice(0, 100)

Runs == 1..MaxRuns

---------------------------------------------------------------------------
(* Strings are sequences of characters; a decimal digit is the number      *)
(* 0..9 and every other character is NonDigit.  NaN is the number that     *)
(* parseInt returns for a string that starts with no digit.                *)

NonDigit == 10
NaN == -1

RECURSIVE NumToString(_)
(* Number.prototype.toString for a non-negative integer or NaN ("NaN"). *)
NumToString(n) ==
    IF n = NaN THEN <<NonDigit, NonDigit, NonDigit>>
    ELSE IF n < 10 THEN <<n>>
    ELSE Append(NumToString(n \div 10), n % 10)

(* n + k and n++ of JavaScript numbers: NaN stays NaN. *)
NumAdd(n, k) == IF n = NaN THEN NaN ELSE n + k

RECURSIVE Zeros(_)
Zeros(k) == IF k <= 0 THEN <<>> ELSE <<0>> \o Zeros(k - 1)

(* Padding at the end of the string, as String.prototype.padEnd does. *)
PadEnd(s, width) ==
    IF Len(s) >= width THEN s ELSE s \o Zeros(width - Len(s))

(* String.prototype.padStart(width, "0"): a string already as long as     *)
(* width is returned unchanged.                                            *)
PadStart(s, width) ==
    IF Len(s) >= width THEN s ELSE Zeros(width - Len(s)) \o s

RECURSIVE ParseDigits(_, _)
ParseDigits(s, acc) ==
    IF s = <<>> \/ Head(s) = NonDigit THEN acc
    ELSE ParseDigits(Tail(s), 10 * acc + Head(s))

(* parseInt: the value of the longest prefix of decimal digits, NaN when   *)
(* the string starts with no digit.                                        *)
ParseInt(s) ==
    IF s = <<>> \/ Head(s) = NonDigit THEN NaN ELSE ParseDigits(s, 0)

(* String.prototype.slice(-k): the last k characters. *)
SliceLast(s, k) ==
    IF Len(s) <= k THEN s ELSE SubSeq(s, Len(s) - k + 1, Len(s))

(* The identifier as it is written to config.yml. *)
FormatMsin(msin) == PadStart(NumToString(msin), MSIN_WIDTH)

---------------------------------------------------------------------------
(* The request inputs the model draws from. *)

(* The start requests: <<msinBase, ueCount>> form values.  A full batch,   *)
(* a batch whose ueCount field is 0, a base of the wrong length, and a     *)
(* base of the right length that starts with a letter.                     *)
StartInputs ==
    {<<FormatMsin(1), MaxCount>>, <<FormatMsin(7), 0>>, <<<<1, 2, 3>>, 1>>,
     <<<<NonDigit>> \o Zeros(MSIN_WIDTH - 1), 1>>}

(* The POST /run bodies: <<imsi, ueCount>>; the imsi is mcc+mnc followed   *)
(* by the msin.  Two well-formed bodies, a ueCount of 0, an imsi too short. *)
RunInputs ==
    {<<Zeros(5) \o FormatMsin(1), MaxCount>>, <<Zeros(5) \o FormatMsin(7), 1>>,
     <<Zeros(5) \o FormatMsin(7), 0>>, <<<<9, 9>>, 1>>}

(* How a spawned child behaves: it exits by itself or when signalled       *)
(* ("exits"), it never exits and ignores SIGTERM ("hangs"), or it could    *)
(* not be launched ("nolaunch": Node's exit callback emits 'error' and,    *)
(* no stdio stream being open, 'close' with a negative code right after).  *)
ChildKinds == {"exits", "hangs", "nolaunch"}

(* Exit codes of a 'close' event; "null" is a child ended by a signal.     *)
ExitCodes == {"0", "1"}

(* The code of the 'close' event of a child that could not be launched. *)
LaunchFailureCode == "-2"

---------------------------------------------------------------------------
(* Process Runner: the child process and the promise of one invocation.    *)

(* session is the ueIndex the invocation was started for (1 for POST /run). *)
(* Once an invocation has settled and its child is closed no event of it   *)
(* is left, so a loop call needs one entry: the next runSingleUE call      *)
(* takes the entry over.                                                   *)
NoProc ==
    [state |-> "none", session |-> 0, kind |-> "none", timerArmed |-> FALSE,
     processKilled |-> FALSE, signals |-> 0, errorSeen |-> FALSE,
     code |-> "none", settled |-> FALSE, value |-> "none",
     firstValue |-> "none", delivered |-> 0, staged |-> <<>>]

(* spawn(...) and setTimeout(killTimer) of runSingleUE / runPacketRusher;  *)
(* staged is ue.msin as the patcher left it for this invocation.           *)
SpawnProc(session, kind, staged) ==
    [NoProc EXCEPT !.state = "running", !.session = session, !.kind = kind,
                   !.timerArmed = TRUE, !.staged = staged]

(* resolve(outcome) of `new Promise((resolve) => ...)`: a promise settles  *)
(* once; a later call changes nothing and wakes nobody.  firstValue keeps  *)
(* the outcome of the first call, delivered counts the times the awaiting  *)
(* caller is handed an outcome.                                            *)

(* A resolve that is never called: the awaiting caller is never woken.     *)
PromiseNeverResolve(p, outcome) == p

PromiseResolveAgain(p, outcome) ==
    [p EXCEPT !.settled = TRUE, !.value = outcome, !.delivered = @ + 1,
              !.firstValue = IF @ = "none" THEN outcome ELSE @]

PromiseResolve(p, outcome) ==
    IF p.settled
    THEN p
    ELSE [p EXCEPT !.settled = TRUE, !.value = outcome, !.delivered = @ + 1,
                   !.firstValue = outcome]

(* The outcome the 'close' handler of runSingleUE resolves with:           *)
(* success: true whatever the exit code.                                   *)
SingleUECloseOutcome(code) == "ok"

(* The outcome the 'close' handler of runPacketRusher resolves with. *)
PacketRusherCloseOutcome(code) == IF code = "0" THEN "ok" ELSE "fail"

CloseOutcome(v, code) ==
    IF v = "sequential" THEN SingleUECloseOutcome(code)
                        ELSE PacketRusherCloseOutcome(code)

(* A 'close' handler that leaves the kill timer armed. *)
OnCloseKeepTimer(v, p, code) ==
    PromiseResolve([p EXCEPT !.state = "closed",
                             !.code = code, !.kind = "none",
                             !.staged = <<>>, !.processKilled = FALSE,
                             !.signals = 0],
                   CloseOutcome(v, code))

(* process.on("close"): clearTimeout(killTimer), resolve(...).  The child  *)
(* is gone: what kind it was, what was staged for it and the timer's       *)
(* processKilled flag no longer matter, and the count of signals starts    *)
(* again at 0, so that it counts the signals sent after the close.         *)
OnClose(v, p, code) ==
    PromiseResolve([p EXCEPT !.state = "closed", !.timerArmed = FALSE,
                             !.code = code, !.kind = "none",
                             !.staged = <<>>, !.processKilled = FALSE,
                             !.signals = 0],
                   CloseOutcome(v, code))

(* An 'error' handler that hands the failure to nobody. *)
OnErrorThrow(p) == [p EXCEPT !.errorSeen = TRUE, !.timerArmed = FALSE]

(* process.on("error"): clearTimeout(killTimer), resolve({success:false}). *)
OnError(p) ==
    PromiseResolve([p EXCEPT !.errorSeen = TRUE, !.timerArmed = FALSE], "fail")

(* The killTimer callback: one SIGTERM, guarded by processKilled; it does  *)
(* not resolve the promise.                                                *)
OnKillTimer(p) ==
    IF p.processKilled
    THEN [p EXCEPT !.timerArmed = FALSE]
    ELSE [p EXCEPT !.timerArmed = FALSE, !.processKilled = TRUE,
                   !.signals = @ + 1]

(* The exit codes the 'close' event of a launched child p can carry. *)
CloseCodes(p) ==
    IF p.signals > 0 THEN ExitCodes \cup {"null"} ELSE ExitCodes

(* Whether the launched child of p can emit 'close' now. *)
CanClose(p) ==
    /\ p.state = "running"
    /\ p.kind = "exits"

(* A launch failure: the 'error' handler and then the 'close' handler run  *)
(* in the same turn.                                                       *)
OnLaunchFailure(v, p) == OnClose(v, OnError(p), LaunchFailureCode)

---------------------------------------------------------------------------
(* Sequential server: serverState and the runSequentialUEs loop.           *)

InitServerState ==
    [isRunning |-> FALSE, currentUeIndex |-> 0, totalUeCount |-> 0,
     currentMsin |-> 0, sessionAborted |-> FALSE]

(* One runSequentialUEs call.  pc is where the call stands:                *)
(*   "idle"   not scheduled          "timer"  setTimeout(..., 100) pending *)
(*   "patch"  await updateConfig(...) (fs.readFile, then fs.writeFile)     *)
(*   "await"  await runSingleUE(i)   "done"   the function has returned    *)
(* i is the loop variable, msin the argument updateConfig was called with. *)
(* The other fields record what the call did: base and count of the start  *)
(* request that scheduled it, the number of Process Runner invocations it  *)
(* started, whether the identifier staged for each of them so far was      *)
(* base + (its position) - 1, whether a stop request was handled while it  *)
(* was scheduled or running, whether updateConfig failed, and the terminal *)
(* summary it logged.  completed counts the invocations the call awaited  *)
(* to their end, lastResult is what it logged for the latest of them       *)
(* (lines 768-772).                                                        *)
NoLoop ==
    [pc |-> "idle", i |-> 0, msin |-> 0, base |-> 0, count |-> 0,
     started |-> 0, inOrder |-> TRUE, stopped |-> FALSE,
     cfgFailed |-> FALSE, summary |-> "none", summaryCount |-> 0,
     summaryTotal |-> 0, completed |-> 0, lastResult |-> "none"]

(* The loop call has started one more invocation, with ue.msin = id. *)
Started(lp, id) ==
    [lp EXCEPT !.started = @ + 1,
               !.inOrder = @ /\ id = FormatMsin(NumAdd(lp.base, lp.started))]

(* Lines 778-792: isRunning = false and the terminal summary. *)
Terminal(st, lp) ==
    [st |-> [st EXCEPT !.isRunning = FALSE],
     lp |-> [lp EXCEPT !.pc = "done",
                       !.summary = IF st.sessionAborted THEN "aborted"
                                                        ELSE "completed",
                       !.summaryCount = IF st.sessionAborted
                                        THEN st.currentUeIndex - 1
                                        ELSE st.totalUeCount,
                       !.summaryTotal = st.totalUeCount]]

(* Lines 743-759: the loop condition, the cancel check, currentUeIndex = i *)
(* and the call of updateConfig with the current identifier.               *)
LoopTop(st, lp) ==
    IF lp.i > st.totalUeCount THEN Terminal(st, lp)
    ELSE IF st.sessionAborted THEN Terminal(st, lp)
    ELSE [st |-> [st EXCEPT !.currentUeIndex = lp.i],
          lp |-> [lp EXCEPT !.pc = "patch", !.msin = st.currentMsin]]

(* A loop that gives the batch up when a session fails. *)
AfterSessionStopOnFail(st, lp, outcome) ==
    IF outcome = "fail"
    THEN Terminal(st, [lp EXCEPT !.completed = @ + 1, !.lastResult = outcome])
    ELSE LoopTop([st EXCEPT !.currentMsin = NumAdd(@, 1)],
                 [lp EXCEPT !.i = @ + 1, !.completed = @ + 1,
                            !.lastResult = outcome])

(* Lines 768-776: the outcome is logged, currentMsin++, i++, loop. *)
AfterSession(st, lp, outcome) ==
    LoopTop([st EXCEPT !.currentMsin = NumAdd(@, 1)],
            [lp EXCEPT !.i = @ + 1, !.completed = @ + 1,
                       !.lastResult = outcome])

(* Line 766: `await runSingleUE(i)` suspends the loop until the promise    *)
(* settles.                                                                *)
NoAwaitRunSingleUE(st, lp) == AfterSession(st, lp, "ok")

AwaitRunSingleUE(st, lp) == [st |-> st, lp |-> [lp EXCEPT !.pc = "await"]]

(* A loop that skips the session whose configuration could not be        *)
(* patched and goes on with the next one.                                  *)
ConfigFailedContinue(st, lp) ==
    LoopTop(st, [lp EXCEPT !.cfgFailed = TRUE, !.i = @ + 1])

(* Lines 760-763: updateConfig returned false: log and break. *)
ConfigFailed(st, lp) == Terminal(st, [lp EXCEPT !.cfgFailed = TRUE])

(* ueCount as the start handler reads it: parseInt(formData.ueCount) || 1. *)
ParseUeCount(n) == IF n = 0 THEN 1 ELSE n

(* Lines 873-888 for the fields the model varies. *)
StartValid(msinBase, ueCount) ==
    /\ Len(msinBase) = MSIN_WIDTH
    /\ ueCount >= 1
    /\ ueCount <= MAX_UE_COUNT

(* A start handler that leaves sessionAborted as it finds it. *)
SessionsStartKeepAbort(msinBase, n) ==
    LET ueCount == ParseUeCount(n) IN
    /\ variant = "sequential"
    /\ IF StartValid(msinBase, ueCount)
       THEN /\ nStarts < budget
            /\ nStarts' = nStarts + 1
            /\ serverState' =
                   [isRunning |-> TRUE, currentUeIndex |-> 0,
                    totalUeCount |-> ueCount,
                    currentMsin |-> ParseInt(msinBase),
                    sessionAborted |-> serverState.sessionAborted]
            /\ loops' = [loops EXCEPT ![nStarts + 1] =
                   [NoLoop EXCEPT !.pc = "timer",
                                  !.base = ParseInt(msinBase),
                                  !.count = ueCount]]
            /\ response' = "200"
       ELSE /\ response' = "400"
            /\ UNCHANGED <<nStarts, serverState, loops>>
    /\ UNCHANGED <<budget, variant, configMsin, reqs, proc, logs, ident, ws,
                   cli, page, single, launch>>

(* POST /api/sessions/start, lines 834-974. *)
SessionsStart(msinBase, n) ==
    LET ueCount == ParseUeCount(n) IN
    /\ variant = "sequential"
    /\ IF StartValid(msinBase, ueCount)
       THEN /\ nStarts < budget
            /\ nStarts' = nStarts + 1
            /\ serverState' =
                   [isRunning |-> TRUE, currentUeIndex |-> 0,
                    totalUeCount |-> ueCount,
                    currentMsin |-> ParseInt(msinBase),
                    sessionAborted |-> FALSE]
            /\ loops' = [loops EXCEPT ![nStarts + 1] =
                   [NoLoop EXCEPT !.pc = "timer",
                                  !.base = ParseInt(msinBase),
                                  !.count = ueCount]]
            /\ response' = "200"
       ELSE /\ response' = "400"
            /\ UNCHANGED <<nStarts, serverState, loops>>
    /\ UNCHANGED <<budget, variant, configMsin, reqs, proc, logs, ident, ws,
                   cli, page, single, launch>>

(* A stop handler that also signals the children still running. *)
SessionsStopKill ==
    /\ variant = "sequential"
    /\ serverState' = [serverState EXCEPT !.sessionAborted = TRUE,
                                          !.isRunning = FALSE]
    /\ loops' = [l \in Runs |->
                   IF loops[l].pc \in {"idle", "done"} THEN loops[l]
                   ELSE [loops[l] EXCEPT !.stopped = TRUE]]
    /\ proc' = [k \in Runs |->
                   IF proc[k].state = "running"
                   THEN [proc[k] EXCEPT !.signals = @ + 1]
                   ELSE proc[k]]
    /\ response' = "200"
    /\ UNCHANGED <<budget, variant, configMsin, reqs, nStarts, logs, ident,
                   ws, cli, page, single, launch>>

(* POST /api/sessions/stop, lines 977-1008. *)
SessionsStop ==
    /\ variant = "sequential"
    /\ serverState' = [serverState EXCEPT !.sessionAborted = TRUE,
                                          !.isRunning = FALSE]
    /\ loops' = [l \in Runs |->
                   IF loops[l].pc \in {"idle", "done"} THEN loops[l]
                   ELSE [loops[l] EXCEPT !.stopped = TRUE]]
    /\ response' = "200"
    /\ UNCHANGED <<budget, variant, configMsin, reqs, proc, nStarts, logs,
                   ident, ws, cli, page, single, launch>>

(* The 100 ms timer of lines 944-946 fires: runSequentialUEs() starts. *)
LoopTimerFires(l) ==
    /\ variant = "sequential"
    /\ loops[l].pc = "timer"
    /\ LET r == LoopTop(serverState, [loops[l] EXCEPT !.i = 1]) IN
        /\ serverState' = r.st
        /\ loops' = [loops EXCEPT ![l] = r.lp]
    /\ UNCHANGED <<budget, variant, configMsin, reqs, proc, nStarts, response,
                   logs, ident, ws, cli, page, single, launch>>

(* updateConfig, lines 608-647, then runSingleUE(i), lines 650-687.  The   *)
(* call awaits fs.readFile and then fs.writeFile; the read changes nothing *)
(* and every failure (missing file, unparsable text, no "ue" section,     *)
(* failed write) is caught and returns false, so the two completions are   *)
(* one step.  On success ue.msin is the padded identifier updateConfig was *)
(* called with, updateConfig returns true and the child is spawned in the  *)
(* same turn.                                                              *)
UpdateConfigDone(l, ok, kind) ==
    /\ variant = "sequential"
    /\ loops[l].pc = "patch"
    /\ IF ok
       THEN LET id == FormatMsin(loops[l].msin)
                r == AwaitRunSingleUE(serverState, Started(loops[l], id))
            IN  /\ configMsin' = id
                /\ proc' = [proc EXCEPT ![l] =
                                SpawnProc(loops[l].i, kind, id)]
                /\ serverState' = r.st
                /\ loops' = [loops EXCEPT ![l] = r.lp]
       ELSE LET r == ConfigFailed(serverState, loops[l]) IN
                /\ serverState' = r.st
                /\ loops' = [loops EXCEPT ![l] = r.lp]
                /\ UNCHANGED <<configMsin, proc>>
    /\ UNCHANGED <<budget, variant, reqs, nStarts, response, logs, ident, ws,
                   cli, page, single, launch>>

(* The loop resumes after `await runSingleUE(i)` with the outcome the      *)
(* promise settled with.                                                   *)
ResumeLoop(l, s, outcome) ==
    IF loops[l].pc = "await" /\ loops[l].i = s
    THEN LET r == AfterSession(serverState, loops[l], outcome) IN
            /\ serverState' = r.st
            /\ loops' = [loops EXCEPT ![l] = r.lp]
    ELSE UNCHANGED <<serverState, loops>>

(* runSingleUE, lines 715-726: the child's 'close' event. *)
UEClose(l, code) ==
    /\ variant = "sequential"
    /\ CanClose(proc[l])
    /\ code \in CloseCodes(proc[l])
    /\ LET p == OnClose("sequential", proc[l], code) IN
        /\ proc' = [proc EXCEPT ![l] = p]
        /\ IF p.settled /\ ~proc[l].settled
           THEN ResumeLoop(l, proc[l].session, p.value)
           ELSE UNCHANGED <<serverState, loops>>
    /\ UNCHANGED <<budget, variant, configMsin, reqs, nStarts, response, logs,
                   ident, ws, cli, page, single, launch>>

(* runSingleUE, lines 728-737 and 715-726: the child could not be         *)
(* launched: its 'error' event, followed by its 'close' event.             *)
UEError(l) ==
    /\ variant = "sequential"
    /\ proc[l].state = "running"
    /\ proc[l].kind = "nolaunch"
    /\ LET p == OnLaunchFailure("sequential", proc[l]) IN
        /\ proc' = [proc EXCEPT ![l] = p]
        /\ IF p.settled /\ ~proc[l].settled
           THEN ResumeLoop(l, proc[l].session, p.value)
           ELSE UNCHANGED <<serverState, loops>>
    /\ UNCHANGED <<budget, variant, configMsin, reqs, nStarts, response, logs,
                   ident, ws, cli, page, single, launch>>

(* runSingleUE, lines 678-687: the kill timer fires (3000 ms). *)
UEKillTimer(l) ==
    /\ variant = "sequential"
    /\ proc[l].state = "running"
    /\ proc[l].kind \in {"exits", "hangs"}
    /\ proc[l].timerArmed
    /\ proc' = [proc EXCEPT ![l] = OnKillTimer(@)]
    /\ UNCHANGED <<budget, variant, serverState, configMsin, loops, reqs,
                   nStarts, response, logs, ident, ws, cli, page, single,
                   launch>>

---------------------------------------------------------------------------
(* Direct-execution server: POST /run and runPacketRusher.                 *)

(* One POST /run request.  pc: "idle" not received, "access" awaiting      *)
(* fs.access, "read" awaiting fs.readFile, "write" awaiting fs.writeFile,  *)
(* "run" awaiting runPacketRusher, "responded" answered with `status`;     *)
(* result is the success field of the body of a 200 response.              *)
NoReq ==
    [pc |-> "idle", imsi |-> <<>>, ueCount |-> 0, status |-> "none",
     result |-> "none"]

Respond(rq, status) == [rq EXCEPT !.pc = "responded", !.status = status]

(* Lines 1542-1556: the body is parsed and validated. *)
RunRequest(imsi, ueCount) ==
    /\ variant = "direct"
    /\ nStarts < budget
    /\ nStarts' = nStarts + 1
    /\ LET rq == [NoReq EXCEPT !.imsi = imsi, !.ueCount = ueCount] IN
        reqs' = [reqs EXCEPT ![nStarts + 1] =
                    IF Len(imsi) # IMSI_LENGTH THEN Respond(rq, "400")
                    ELSE IF ueCount < 1 THEN Respond(rq, "400")
                    ELSE [rq EXCEPT !.pc = "access"]]
    /\ UNCHANGED <<budget, variant, serverState, configMsin, loops, proc,
                   response, logs, ident, ws, cli, page, single, launch>>

(* Lines 1559-1570: fs.access(CONFIG_PATH) completes. *)
RunAccess(r, ok) ==
    /\ variant = "direct"
    /\ reqs[r].pc = "access"
    /\ reqs' = [reqs EXCEPT ![r] = IF ok THEN [@ EXCEPT !.pc = "read"]
                                         ELSE Respond(@, "500")]
    /\ UNCHANGED <<budget, variant, serverState, configMsin, loops, proc,
                   nStarts, response, logs, ident, ws, cli, page, single,
                   launch>>

(* Lines 1573-1586: fs.readFile and yaml.load complete: the document is    *)
(* read ("ok"), has no ue section ("noue"), or reading/parsing throws.     *)
RunRead(r, outcome) ==
    /\ variant = "direct"
    /\ reqs[r].pc = "read"
    /\ reqs' = [reqs EXCEPT ![r] = IF outcome = "ok"
                                   THEN [@ EXCEPT !.pc = "write"]
                                   ELSE Respond(@, "500")]
    /\ UNCHANGED <<budget, variant, serverState, configMsin, loops, proc,
                   nStarts, response, logs, ident, ws, cli, page, single,
                   launch>>

(* Lines 1589-1597 and 1421-1460: fs.writeFile completes and               *)
(* runPacketRusher spawns the child in the same turn; a failed write       *)
(* throws and is answered with 500.                                        *)
RunWrite(r, ok, kind) ==
    /\ variant = "direct"
    /\ reqs[r].pc = "write"
    /\ IF ok
       THEN LET id == SliceLast(reqs[r].imsi, MSIN_WIDTH) IN
            /\ configMsin' = id
            /\ proc' = [proc EXCEPT ![r] = SpawnProc(1, kind, id)]
            /\ reqs' = [reqs EXCEPT ![r].pc = "run"]
       ELSE /\ reqs' = [reqs EXCEPT ![r] = Respond(@, "500")]
            /\ UNCHANGED <<configMsin, proc>>
    /\ UNCHANGED <<budget, variant, serverState, loops, nStarts, response,
                   logs, ident, ws, cli, page, single, launch>>

(* Lines 1597-1600: the handler resumes after `await runPacketRusher(...)` *)
(* and answers 200 with the outcome.                                       *)
ResumeRun(r, outcome) ==
    IF reqs[r].pc = "run"
    THEN reqs' = [reqs EXCEPT ![r] =
                     [Respond(@, "200") EXCEPT !.result = outcome]]
    ELSE UNCHANGED reqs

(* runPacketRusher, lines 1490-1515: the child's 'close' event. *)
PRClose(r, code) ==
    /\ variant = "direct"
    /\ CanClose(proc[r])
    /\ code \in CloseCodes(proc[r])
    /\ LET p == OnClose("direct", proc[r], code) IN
        /\ proc' = [proc EXCEPT ![r] = p]
        /\ IF p.settled /\ ~proc[r].settled
           THEN ResumeRun(r, p.value)
           ELSE UNCHANGED reqs
    /\ UNCHANGED <<budget, variant, serverState, configMsin, loops, nStarts,
                   response, logs, ident, ws, cli, page, single, launch>>

(* runPacketRusher, lines 1517-1527 and 1490-1515: the child could not be *)
(* launched: its 'error' event, followed by its 'close' event.             *)
PRError(r) ==
    /\ variant = "direct"
    /\ proc[r].state = "running"
    /\ proc[r].kind = "nolaunch"
    /\ LET p == OnLaunchFailure("direct", proc[r]) IN
        /\ proc' = [proc EXCEPT ![r] = p]
        /\ IF p.settled /\ ~proc[r].settled
           THEN ResumeRun(r, p.value)
           ELSE UNCHANGED reqs
    /\ UNCHANGED <<budget, variant, serverState, configMsin, loops, nStarts,
                   response, logs, ident, ws, cli, page, single, launch>>

(* runPacketRusher, lines 1453-1460: the kill timer fires (30000 ms). *)
PRKillTimer(r) ==
    /\ variant = "direct"
    /\ proc[r].state = "running"
    /\ proc[r].kind \in {"exits", "hangs"}
    /\ proc[r].timerArmed
    /\ proc' = [proc EXCEPT ![r] = OnKillTimer(@)]
    /\ UNCHANGED <<budget, variant, serverState, configMsin, loops, reqs,
                   nStarts, response, logs, ident, ws, cli, page, single,
                   launch>>

---------------------------------------------------------------------------
(* The log buffers, server.js 543-559 and 1011-1014.  An entry is the      *)
(* number of entries added to its buffer since the buffer was last         *)
(* emptied, itself included: entry 1 is the oldest.  added keeps these     *)
(* counts and limit is how many entries the environment lets a buffer      *)
(* take before it is emptied.  The buffers influence no handler; they are  *)
(* exercised by the specifications LogSpec and ClearSpec.                  *)

InitLogs ==
    [sessionLogs |-> <<>>, packetrusherLogs |-> <<>>,
     added |-> [session |-> 0, packetrusher |-> 0],
     limit |-> MaxLogs]

(* Array.prototype.unshift(entry). *)
Unshift(buf, entry) == <<entry>> \o buf

(* Array.prototype.slice(from, to) with 0 <= from, zero-based, to          *)
(* exclusive.                                                              *)
Slice(buf, from, to) ==
    IF from >= Len(buf) \/ to <= from THEN <<>>
    ELSE SubSeq(buf, from + 1, IF to > Len(buf) THEN Len(buf) ELSE to)

(* A cap that drops the newest entry instead of the oldest. *)
CapEvictNewest(buf) ==
    IF Len(buf) > LOG_CAP THEN Slice(buf, 1, LOG_CAP + 1) ELSE buf

(* if (logs.length > 100) logs = logs.slice(0, 100) *)
Cap(buf) == IF Len(buf) > LOG_CAP THEN Slice(buf, 0, LOG_CAP) ELSE buf

(* addLog(message, type): the buffers after the call. *)
AddLog(lg, type) ==
    IF type = "session"
    THEN [lg EXCEPT !.added.session = @ + 1,
                    !.sessionLogs = Cap(Unshift(@, lg.added.session + 1))]
    ELSE IF type = "packetrusher"
    THEN [lg EXCEPT !.added.packetrusher = @ + 1,
                    !.packetrusherLogs =
                        Cap(Unshift(@, lg.added.packetrusher + 1))]
    ELSE lg

LogTypes == {"session", "packetrusher"}

(* A call of addLog, from a handler or from a child's output. *)
Log(type) ==
    /\ logs.added[type] < logs.limit
    /\ logs' = AddLog(logs, type)
    /\ UNCHANGED <<variant, serverState, configMsin, loops, reqs, proc,
                   nStarts, budget, response, ident, ws, cli, page, single,
                   launch>>

(* a clear handler that would also reset the batch state                   *)
LogsClearAndReset ==
    /\ logs' = [logs EXCEPT !.sessionLogs = <<>>, !.packetrusherLogs = <<>>,
                            !.added = InitLogs.added]
    /\ serverState' = InitServerState
    /\ UNCHANGED <<variant, configMsin, loops, reqs, proc, nStarts, budget,
                   response, ident, ws, cli, page, single, launch>>

(* POST /api/logs/clear, lines 1011-1025. *)
LogsClear ==
    /\ logs' = [logs EXCEPT !.sessionLogs = <<>>, !.packetrusherLogs = <<>>,
                            !.added = InitLogs.added]
    /\ UNCHANGED <<variant, serverState, configMsin, loops, reqs, proc,
                   nStarts, budget, response, ident, ws, cli, page, single,
                   launch>>

---------------------------------------------------------------------------
(* The identifier sequencer: parseInt(base) + k, toString(),               *)
(* padStart(10, "0") (server.js 618, 775, 922; part_000 110-111).  A ten   *)
(* or eleven digit number is beyond the model checker's integers, so the   *)
(* number is kept as its decimal digits, most significant first, without   *)
(* leading zeros.                                                          *)

RECURSIVE StripZeros(_)
StripZeros(s) ==
    IF Len(s) > 1 /\ Head(s) = 0 THEN StripZeros(Tail(s)) ELSE s

(* parseInt of a string of decimal digits, as the digits of the number. *)
DecParse(s) == StripZeros(s)

RECURSIVE DecAdd(_, _)
(* The digits of d + k, for the digits d of a number and 0 <= k. *)
DecAdd(d, k) ==
    IF k = 0 THEN d
    ELSE IF d = <<>> THEN NumToString(k)
    ELSE LET sum == d[Len(d)] + k IN
         Append(DecAdd(SubSeq(d, 1, Len(d) - 1), sum \div 10), sum % 10)

(* The identifier derived from the string b and the offset k. *)
IdentifierNext(b, k) == PadStart(DecAdd(DecParse(b), k), MSIN_WIDTH)

RECURSIVE Nines(_)
Nines(k) == IF k <= 0 THEN <<>> ELSE <<9>> \o Nines(k - 1)

(* The bases the sequencer is run on: valid ten digit strings, among them  *)
(* the largest and bases whose increment carries.                          *)
IdBases ==
    {FormatMsin(0), FormatMsin(1), FormatMsin(9), FormatMsin(99),
     FormatMsin(12345), <<0>> \o Nines(MSIN_WIDTH - 1),
     <<1>> \o Zeros(MSIN_WIDTH - 1), Nines(MSIN_WIDTH - 1) \o <<0>>,
     Nines(MSIN_WIDTH)}

(* base: the string the sequencer started from; offset: the sum of the     *)
(* increments applied; steps: their number; id: the identifier obtained by *)
(* deriving each identifier from the previous one; num: the number the     *)
(* sequential server keeps in currentMsin and increments.                  *)
NoIdent == [base |-> <<>>, offset |-> 0, steps |-> 0, id |-> <<>>,
            num |-> <<>>]

StartIdent(b) ==
    [base |-> b, offset |-> 0, steps |-> 0, id |-> b, num |-> DecParse(b)]

(* One more identifier is derived, k further on. *)
IdentifierStep(k) ==
    /\ ident.base # <<>>
    /\ ident.offset + k <= MaxOffset
    /\ ident' = [ident EXCEPT !.offset = @ + k, !.steps = @ + 1,
                              !.id = IdentifierNext(@, k),
                              !.num = DecAdd(@, k)]
    /\ UNCHANGED <<variant, serverState, configMsin, loops, reqs, proc,
                   nStarts, budget, response, logs, ws, cli, page, single,
                   launch>>

---------------------------------------------------------------------------
(* Observers: the WebSocket connections of the browser pages.              *)
(* server.js 1080-1098 and 1615-1638 (wss.on("connection")), 562-579       *)
(* (broadcastLogUpdate), 582-606 (updateProgressDisplay), 1426-1439        *)
(* (broadcast).  An observer is one connection; events are numbered in the *)
(* order they are broadcast.                                               *)

MaxObservers == 2
MaxEvents == 2

OPEN == 1

Observers == 1..MaxObservers

ReadyStates == 0..3   \* CONNECTING, OPEN, CLOSING, CLOSED

Welcome == [kind |-> "welcome", n |-> 0]

Event(n) == [kind |-> "event", n |-> n]

RECURSIVE History(_)
History(n) == IF n = 0 THEN <<>> ELSE Append(History(n - 1), Event(n))

Filter(clients, o) == SelectSeq(clients, LAMBDA client : client # o)

Registered(w) == {w.wsClients[i] : i \in 1..Len(w.wsClients)}

NoWs ==
    [wsClients  |-> <<>>,
     readyState |-> [o \in Observers |-> 0],
     received   |-> [o \in Observers |-> <<>>],
     events     |-> 0,
     joinedAt   |-> [o \in Observers |-> 0],
     closeSeen  |-> {},
     errorSeen  |-> {}]

(* a connection handler that would replay the events broadcast so far      *)
OnConnectionReplay(w, o) ==
    [w EXCEPT !.wsClients = Append(@, o),
              !.readyState[o] = OPEN,
              !.joinedAt[o] = w.events,
              !.received[o] = <<Welcome>> \o History(w.events)]

(* wss.on("connection"): wsClients.push(ws); ws.send(welcome)              *)
OnConnection(w, o) ==
    [w EXCEPT !.wsClients = Append(@, o),
              !.readyState[o] = OPEN,
              !.joinedAt[o] = w.events,
              !.received[o] = <<Welcome>>]

(* a forEach body without the readyState test                              *)
SendsToAll(w, o) == o \in Registered(w)

(* wsClients.forEach((ws) => { if (ws.readyState === 1) ws.send(...) })    *)
SendsTo(w, o) == o \in Registered(w) /\ w.readyState[o] = OPEN

BroadcastLogUpdate(w) ==
    [w EXCEPT !.events = @ + 1,
              !.received = [o \in Observers |->
                  IF SendsTo(w, o)
                  THEN Append(w.received[o], Event(w.events + 1))
                  ELSE w.received[o]]]

WsConnect(o) ==
    /\ ws.readyState[o] = 0
    /\ o \notin Registered(ws)
    /\ o \notin ws.closeSeen \cup ws.errorSeen
    /\ ws' = OnConnection(ws, o)
    /\ UNCHANGED <<variant, serverState, configMsin, loops, reqs, proc,
                   nStarts, budget, response, logs, ident, cli, page, single,
                   launch>>

(* the socket leaves OPEN before its "close" event is delivered            *)
WsReadyState(o, r) ==
    /\ ws.readyState[o] \in {1, 2}
    /\ r > ws.readyState[o]
    /\ ws' = [ws EXCEPT !.readyState[o] = r]
    /\ UNCHANGED <<variant, serverState, configMsin, loops, reqs, proc,
                   nStarts, budget, response, logs, ident, cli, page, single,
                   launch>>

(* ws.on("close"): wsClients = wsClients.filter((client) => client !== ws) *)
WsOnClose(o) ==
    /\ ws.readyState[o] = 3
    /\ o \notin ws.closeSeen
    /\ ws' = [ws EXCEPT !.wsClients = Filter(@, o),
                        !.closeSeen = @ \cup {o}]
    /\ UNCHANGED <<variant, serverState, configMsin, loops, reqs, proc,
                   nStarts, budget, response, logs, ident, cli, page, single,
                   launch>>

(* ws.on("error"): the same filter; the socket may still be open           *)
WsOnError(o) ==
    /\ ws.readyState[o] \in {1, 2}
    /\ o \notin ws.closeSeen \cup ws.errorSeen
    /\ ws' = [ws EXCEPT !.wsClients = Filter(@, o),
                        !.errorSeen = @ \cup {o}]
    /\ UNCHANGED <<variant, serverState, configMsin, loops, reqs, proc,
                   nStarts, budget, response, logs, ident, cli, page, single,
                   launch>>

Broadcast ==
    /\ ws.events < MaxEvents
    /\ ws' = BroadcastLogUpdate(ws)
    /\ UNCHANGED <<variant, serverState, configMsin, loops, reqs, proc,
                   nStarts, budget, response, logs, ident, cli, page, single,
                   launch>>

(* a data handler that would append the line to the process output buffer *)
UEOutputAddLog(l) ==
    /\ variant = "sequential"
    /\ proc[l].state = "running"
    /\ proc[l].kind \in {"exits", "hangs"}
    /\ ws.events < MaxEvents
    /\ ws' = BroadcastLogUpdate(ws)
    /\ logs' = AddLog(logs, "packetrusher")
    /\ UNCHANGED <<variant, serverState, configMsin, loops, reqs, proc,
                   nStarts, budget, response, ident, cli, page, single,
                   launch>>

(* runSingleUE, lines 658-660 and 689-713: a line of the child's stdout or *)
(* stderr is passed to broadcast, which calls broadcastLogUpdate with type *)
(* "packetrusher"; addLog is not called.                                   *)
UEOutput(l) ==
    /\ variant = "sequential"
    /\ proc[l].state = "running"
    /\ proc[l].kind \in {"exits", "hangs"}
    /\ ws.events < MaxEvents
    /\ ws' = BroadcastLogUpdate(ws)
    /\ UNCHANGED <<variant, serverState, configMsin, loops, reqs, proc,
                   nStarts, budget, response, logs, ident, cli, page, single,
                   launch>>

---------------------------------------------------------------------------
(* The setup script cli.sh (part_001).  One invocation: the command word,  *)
(* the environment it finds, the steps run so far and the exit status.     *)
(* "set -e" (line 3) ends the script at the first command that fails.      *)

Commands == {"setup-packetrusher", "help", "bogus", ""}

(* setup_packetrusher_main, lines 268-286: the calls in program order      *)
SetupSteps ==
    <<"check_root", "check_apt", "install_system_deps", "install_go",
      "setup_packetrusher", "build_gtp5g", "build_packetrusher_cli",
      "display_completion">>

StartCli(command, root, apt, config, gtp5g) ==
    [command   |-> command,
     root      |-> root,     \* $EUID is 0
     apt       |-> apt,      \* command -v apt succeeds
     config    |-> config,   \* config.yml exists in the working directory
     gtp5g     |-> gtp5g,    \* PacketRusher/lib/gtp5g exists after the clone
     pc        |-> "main",
     ran       |-> <<>>,
     failed    |-> "",
     copied    |-> FALSE,
     help      |-> FALSE,
     status    |-> "none"]

NoCli == StartCli("", FALSE, FALSE, FALSE, FALSE)

(* whether the step completes; ok: the commands of the step that can fail  *)
(* (apt, wget, tar, git, cp, make, go) all succeed                         *)
StepSucceeds(c, step, ok) ==
    CASE step = "check_root" -> c.root
      [] step = "check_apt" -> c.apt
      [] step = "build_gtp5g" -> c.gtp5g /\ ok
      [] step = "display_completion" -> TRUE
      [] OTHER -> ok

(* a script without "set -e" and without the "exit 1" of the checks        *)
RunStepNoAbort(c, ok) ==
    LET step == SetupSteps[Len(c.ran) + 1]
        last == Len(c.ran) + 1 = Len(SetupSteps)
        good == StepSucceeds(c, step, ok)
    IN  [c EXCEPT !.ran = Append(@, step),
                  !.failed = IF good \/ c.failed # "" THEN @ ELSE step,
                  !.copied = @ \/ (step = "setup_packetrusher" /\ good
                                   /\ c.config),
                  !.pc = IF last THEN "done" ELSE "setup",
                  !.status = IF last THEN "0" ELSE "running"]

(* the next call of setup_packetrusher_main                                *)
RunStep(c, ok) ==
    LET step == SetupSteps[Len(c.ran) + 1]
        last == Len(c.ran) + 1 = Len(SetupSteps)
        good == StepSucceeds(c, step, ok)
    IN  [c EXCEPT !.ran = Append(@, step),
                  !.failed = IF good THEN @ ELSE step,
                  !.copied = @ \/ (step = "setup_packetrusher" /\ good
                                   /\ c.config),
                  !.pc = IF good /\ ~last THEN "setup" ELSE "done",
                  !.status = IF ~good THEN "1"
                             ELSE IF last THEN "0" ELSE "running"]

(* main, lines 303-316: case "${1:-}"                                      *)
CliMain ==
    /\ cli.pc = "main"
    /\ cli' = CASE cli.command = "setup-packetrusher" ->
                     [cli EXCEPT !.pc = "setup", !.status = "running"]
                [] cli.command = "help" ->
                     [cli EXCEPT !.pc = "done", !.help = TRUE,
                                 !.status = "0"]
                [] OTHER ->
                     [cli EXCEPT !.pc = "done", !.help = TRUE,
                                 !.status = "1"]
    /\ UNCHANGED <<variant, serverState, configMsin, loops, reqs, proc,
                   nStarts, budget, response, logs, ident, ws, page, single,
                   launch>>

SetupStep(ok) ==
    /\ cli.pc = "setup"
    /\ cli' = RunStep(cli, ok)
    /\ UNCHANGED <<variant, serverState, configMsin, loops, reqs, proc,
                   nStarts, budget, response, logs, ident, ws, page, single,
                   launch>>

---------------------------------------------------------------------------
(* The page of the multi-UE interval client (script of the HTML constant,  *)
(* server.js 102-219 and 1247-1409).  A session is one call of             *)
(* runMultiUeSession that got past the isRunning test: logged is the MSIN  *)
(* base the page logs for it, staged is what the POST /run handler writes  *)
(* to config.yml for its request (imsi.slice(-10) of the body, lines 394   *)
(* and 1589), state is "flight" until the fetch completes.                 *)

MaxSessions == 2

Null == -2

PageImsis == {Zeros(5) \o FormatMsin(1), Zeros(5) \o FormatMsin(7), <<9, 9>>}

PageCounts == {0, 1, MaxCount}

NoPage ==
    [isRunning       |-> FALSE,
     intervalSet     |-> FALSE,   \* between start() and stop()
     imsi            |-> <<>>,    \* the two input fields
     ueCount         |-> 0,
     baseMsin        |-> Null,
     currentMsinBase |-> Null,
     totalUeCount    |-> 0,
     sessionCount    |-> 0,
     starts          |-> 0,
     skipped         |-> FALSE,   \* a tick found isRunning true
     sessions        |-> <<>>]

InFlightSessions(pg) ==
    {r \in 1..Len(pg.sessions) : pg.sessions[r].state = "flight"}

(* runMultiUeSession up to the fetch, lines 115-149 and 1304-1331.         *)
RunMultiUeSession(pg) ==
    IF pg.isRunning
    THEN [pg EXCEPT !.skipped = TRUE]
    ELSE LET first == pg.baseMsin = Null
             base  == IF first THEN ParseInt(SliceLast(pg.imsi, MSIN_WIDTH))
                               ELSE pg.baseMsin
             cur   == IF first THEN base ELSE pg.currentMsinBase
         IN  [pg EXCEPT !.isRunning = TRUE,
                        !.baseMsin = base,
                        !.currentMsinBase = cur,
                        !.sessionCount = @ + 1,
                        !.sessions = Append(@,
                            [logged  |-> FormatMsin(cur),
                             staged  |-> SliceLast(pg.imsi, MSIN_WIDTH),
                             ueCount |-> pg.ueCount,
                             state   |-> "flight"])]

(* a result handler that advances the counters whatever the result         *)
OnResultAlwaysAdvance(pg, r, outcome) ==
    [pg EXCEPT !.sessions[r].state = outcome,
               !.totalUeCount = @ + pg.sessions[r].ueCount,
               !.currentMsinBase = NumAdd(@, pg.sessions[r].ueCount),
               !.isRunning = FALSE]

(* lines 135-157 and 1333-1347: the fetch of session r completed with      *)
(* success true ("ok"), success false ("fail") or an exception ("error")   *)
OnResult(pg, r, outcome) ==
    IF outcome = "ok"
    THEN [pg EXCEPT !.sessions[r].state = outcome,
                    !.totalUeCount = @ + pg.sessions[r].ueCount,
                    !.currentMsinBase = NumAdd(@, pg.sessions[r].ueCount),
                    !.isRunning = FALSE]
    ELSE [pg EXCEPT !.sessions[r].state = outcome,
                    !.isRunning = FALSE]

(* start(), lines 179-207 and 1368-1395: the start button is enabled only  *)
(* while no interval is set; the fields are read, validated, and the first *)
(* session is run at once.                                                 *)
PageStart(imsi, ueCount) ==
    /\ ~page.intervalSet
    /\ page.sessionCount < MaxSessions
    /\ IF Len(imsi) # IMSI_LENGTH \/ ueCount < 1
       THEN page' = page   \* alert(...) and return
       ELSE page' = RunMultiUeSession(
                        [page EXCEPT !.imsi = imsi, !.ueCount = ueCount,
                                     !.isRunning = FALSE,
                                     !.intervalSet = TRUE,
                                     !.starts = @ + 1])
    /\ UNCHANGED <<variant, serverState, configMsin, loops, reqs, proc,
                   nStarts, budget, response, logs, ident, ws, cli, single,
                   launch>>

(* stop(), lines 209-219 and 1397-1409.                                    *)
PageStop ==
    /\ page.intervalSet
    /\ page' = [page EXCEPT !.intervalSet = FALSE, !.isRunning = FALSE]
    /\ UNCHANGED <<variant, serverState, configMsin, loops, reqs, proc,
                   nStarts, budget, response, logs, ident, ws, cli, single,
                   launch>>

(* the interval fires: setInterval(runMultiUeSession, ...)                 *)
PageTick ==
    /\ page.intervalSet
    /\ page.isRunning \/ page.sessionCount < MaxSessions
    /\ page' = RunMultiUeSession(page)
    /\ UNCHANGED <<variant, serverState, configMsin, loops, reqs, proc,
                   nStarts, budget, response, logs, ident, ws, cli, single,
                   launch>>

PageResult(r, outcome) ==
    /\ r \in InFlightSessions(page)
    /\ page' = OnResult(page, r, outcome)
    /\ UNCHANGED <<variant, serverState, configMsin, loops, reqs, proc,
                   nStarts, budget, response, logs, ident, ws, cli, single,
                   launch>>

---------------------------------------------------------------------------
(* The page of the single-UE interval client (part_000 90-165).  baseMsin  *)
(* is a string there; null is written as the empty string, which           *)
(* imsi.slice(-10) of an accepted IMSI never is.  sent lists the IMSIs of  *)
(* the POST /run bodies since the latest start, pending counts the         *)
(* requests still in flight.                                               *)

MaxTicks == 3

MCC_MNC_LENGTH == 5

SingleImsis == {Zeros(5) \o FormatMsin(1), Zeros(5) \o FormatMsin(7), <<9, 9>>}

NoSingle ==
    [intervalSet |-> FALSE,
     imsi        |-> <<>>,
     baseMsin    |-> <<>>,
     currentMsin |-> <<>>,
     runCount    |-> 0,
     sent        |-> <<>>,
     pending     |-> 0,
     lastResult  |-> "none"]

(* a start() that keeps the counters of the previous run                   *)
KeepCounters(sg) == sg

(* start(), lines 143-146: baseMsin = null; currentMsin = null;            *)
(* runCount = 0                                                            *)
ResetCounters(sg) ==
    [sg EXCEPT !.baseMsin = <<>>, !.currentMsin = <<>>, !.runCount = 0]

(* run() up to the fetch, lines 101-121.                                   *)
Run(sg) ==
    LET base == IF sg.baseMsin = <<>> THEN SliceLast(sg.imsi, MSIN_WIDTH)
                                      ELSE sg.baseMsin
        msinNumber == NumAdd(ParseInt(base), sg.runCount)
        msin == PadStart(NumToString(msinNumber), MSIN_WIDTH)
        currentImsi == SubSeq(sg.imsi, 1, MCC_MNC_LENGTH) \o msin
    IN  [sg EXCEPT !.baseMsin = base,
                   !.currentMsin = msin,
                   !.runCount = @ + 1,
                   !.sent = Append(@, currentImsi),
                   !.pending = @ + 1]

(* start(), lines 134-156.                                                 *)
SingleStart(imsi) ==
    /\ ~single.intervalSet
    /\ single.pending < MaxTicks
    /\ IF Len(imsi) # IMSI_LENGTH
       THEN single' = single   \* alert(...) and return
       ELSE single' = Run([ResetCounters(single) EXCEPT
                               !.imsi = imsi, !.sent = <<>>,
                               !.intervalSet = TRUE])
    /\ UNCHANGED <<variant, serverState, configMsin, loops, reqs, proc,
                   nStarts, budget, response, logs, ident, ws, cli, page,
                   launch>>

(* stop(), lines 158-165.                                                  *)
SingleStop ==
    /\ single.intervalSet
    /\ single' = [single EXCEPT !.intervalSet = FALSE]
    /\ UNCHANGED <<variant, serverState, configMsin, loops, reqs, proc,
                   nStarts, budget, response, logs, ident, ws, cli, page,
                   launch>>

(* the interval fires: setInterval(run, ...)                               *)
SingleTick ==
    /\ single.intervalSet
    /\ single.runCount < MaxTicks
    /\ single.pending < MaxTicks
    /\ single' = Run(single)
    /\ UNCHANGED <<variant, serverState, configMsin, loops, reqs, proc,
                   nStarts, budget, response, logs, ident, ws, cli, page,
                   launch>>

(* lines 122-131: a fetch completes; only the log is written               *)
SingleResult(outcome) ==
    /\ single.pending > 0
    /\ single' = [single EXCEPT !.pending = @ - 1, !.lastResult = outcome]
    /\ UNCHANGED <<variant, serverState, configMsin, loops, reqs, proc,
                   nStarts, budget, response, logs, ident, ws, cli, page,
                   launch>>

---------------------------------------------------------------------------
(* runPacketRusher of the terminal-launching servers (server.js 226-338,   *)
(* part_000 172-275): exec of gnome-terminal, in its callback exec of      *)
(* xterm, in its callback exec of x-terminal-emulator, in its callback     *)
(* spawn of the binary.  One entry per call.  pc: "idle" not called,       *)
(* "exec" waiting for the callback of the method tried last, "timer"       *)
(* waiting for the 500 ms setTimeout of a method that reported no error,   *)
(* "spawned" the binary runs as a child, "done" the promise is resolved.   *)

MaxCalls == 2

Calls == 1..MaxCalls

LaunchMethods == <<"gnome-terminal", "xterm", "x-terminal-emulator", "spawn">>

NoLaunch ==
    [c \in Calls |->
        [pc |-> "idle", tried |-> <<>>, worked |-> "none",
         resolvedBy |-> "none", p |-> NoProc]]

(* the exec callback of the method tried last: on an error the next method *)
(* is tried, otherwise the promise is resolved 500 ms later                *)
ExecCallback(lc, error, kind) ==
    LET next == LaunchMethods[Len(lc.tried) + 1] IN
    IF ~error
    THEN [lc EXCEPT !.pc = "timer", !.worked = lc.tried[Len(lc.tried)]]
    ELSE IF next = "spawn"
    THEN [lc EXCEPT !.pc = "spawned", !.tried = Append(@, next),
                    !.p = SpawnProc(1, kind, <<>>)]
    ELSE [lc EXCEPT !.tried = Append(@, next)]

(* the close handler resolves success: true whatever the code, as the      *)
(* close handler of runSingleUE does                                       *)
Resolved(lc, p) ==
    [lc EXCEPT !.p = p,
               !.pc = IF p.settled THEN "done" ELSE @,
               !.resolvedBy = IF p.settled /\ ~lc.p.settled
                              THEN lc.tried[Len(lc.tried)] ELSE @,
               !.worked = IF p.settled /\ ~lc.p.settled
                          THEN lc.tried[Len(lc.tried)] ELSE @]

LaunchCall(c) ==
    /\ launch[c].pc = "idle"
    /\ launch' = [launch EXCEPT ![c].pc = "exec",
                                ![c].tried = <<LaunchMethods[1]>>]
    /\ UNCHANGED <<variant, serverState, configMsin, loops, reqs, proc,
                   nStarts, budget, response, logs, ident, ws, cli, page,
                   single>>

LaunchExecDone(c, error, kind) ==
    /\ launch[c].pc = "exec"
    /\ launch' = [launch EXCEPT ![c] = ExecCallback(@, error, kind)]
    /\ UNCHANGED <<variant, serverState, configMsin, loops, reqs, proc,
                   nStarts, budget, response, logs, ident, ws, cli, page,
                   single>>

(* setTimeout(() => resolve({success: true, ...}), 500)                    *)
LaunchTimer(c) ==
    /\ launch[c].pc = "timer"
    /\ launch' = [launch EXCEPT ![c] =
                     Resolved(@, PromiseResolve(@.p, "ok"))]
    /\ UNCHANGED <<variant, serverState, configMsin, loops, reqs, proc,
                   nStarts, budget, response, logs, ident, ws, cli, page,
                   single>>

LaunchClose(c, code) ==
    /\ launch[c].pc = "spawned"
    /\ CanClose(launch[c].p)
    /\ code \in CloseCodes(launch[c].p)
    /\ launch' = [launch EXCEPT ![c] =
                     Resolved(@, OnClose("sequential", @.p, code))]
    /\ UNCHANGED <<variant, serverState, configMsin, loops, reqs, proc,
                   nStarts, budget, response, logs, ident, ws, cli, page,
                   single>>

LaunchError(c) ==
    /\ launch[c].pc = "spawned"
    /\ launch[c].p.state = "running"
    /\ launch[c].p.kind = "nolaunch"
    /\ launch' = [launch EXCEPT ![c] =
                     Resolved(@, OnLaunchFailure("sequential", @.p))]
    /\ UNCHANGED <<variant, serverState, configMsin, loops, reqs, proc,
                   nStarts, budget, response, logs, ident, ws, cli, page,
                   single>>

LaunchKillTimer(c) ==
    /\ launch[c].pc = "spawned"
    /\ launch[c].p.state = "running"
    /\ launch[c].p.kind \in {"exits", "hangs"}
    /\ launch[c].p.timerArmed
    /\ launch' = [launch EXCEPT ![c].p = OnKillTimer(@)]
    /\ UNCHANGED <<variant, serverState, configMsin, loops, reqs, proc,
                   nStarts, budget, response, logs, ident, ws, cli, page,
                   single>>

---------------------------------------------------------------------------
(* The specification. *)

Variants == {"sequential", "direct"}

InitProgram ==
    /\ variant \in Variants
    /\ serverState = InitServerState
    /\ configMsin = FormatMsin(0)
    /\ loops = [l \in Runs |-> NoLoop]
    /\ reqs = [r \in Runs |-> NoReq]
    /\ proc = [k \in Runs |-> NoProc]
    /\ nStarts = 0
    /\ response = "none"
    /\ page = NoPage
    /\ single = NoSingle
    /\ launch = NoLaunch

Init ==
    /\ InitProgram /\ budget = MaxRuns /\ logs = InitLogs /\ ident = NoIdent
    /\ ws = NoWs /\ cli = NoCli

Next ==
    \/ \E in \in StartInputs : SessionsStart(in[1], in[2])
    \/ SessionsStop
    \/ \E l \in Runs : LoopTimerFires(l)
    \/ \E l \in Runs, ok \in BOOLEAN, kind \in ChildKinds :
           UpdateConfigDone(l, ok, kind)
    \/ \E l \in Runs, code \in ExitCodes \cup {"null"} :
           UEClose(l, code)
    \/ \E l \in Runs : UEError(l)
    \/ \E l \in Runs : UEKillTimer(l)
    \/ \E in \in RunInputs : RunRequest(in[1], in[2])
    \/ \E r \in Runs, ok \in BOOLEAN : RunAccess(r, ok)
    \/ \E r \in Runs, o \in {"ok", "noue", "throw"} : RunRead(r, o)
    \/ \E r \in Runs, ok \in BOOLEAN, kind \in ChildKinds :
           RunWrite(r, ok, kind)
    \/ \E r \in Runs, code \in ExitCodes \cup {"null"} : PRClose(r, code)
    \/ \E r \in Runs : PRError(r)
    \/ \E r \in Runs : PRKillTimer(r)

Spec == Init /\ [][Next]_vars

(* The same program when fewer requests arrive. *)
FewInit ==
    /\ InitProgram /\ budget = FewRuns /\ logs = InitLogs /\ ident = NoIdent
    /\ ws = NoWs /\ cli = NoCli

FewSpec == FewInit /\ [][Next]_vars

(* The event loop runs every callback that is ready: timers fire, file     *)
(* operations complete, and a child that exits has its 'close' (and a      *)
(* child that cannot be launched its 'error') event delivered.  HTTP       *)
(* requests are the environment's and carry no fairness.                   *)
Fairness ==
    /\ WF_vars(\E l \in Runs : LoopTimerFires(l))
    /\ WF_vars(\E l \in Runs, kind \in ChildKinds :
                   UpdateConfigDone(l, TRUE, kind))
    /\ WF_vars(\E l \in Runs,
                  code \in ExitCodes \cup {"null"} : UEClose(l, code))
    /\ WF_vars(\E l \in Runs : UEError(l))
    /\ WF_vars(\E l \in Runs : UEKillTimer(l))
    /\ WF_vars(\E r \in Runs : RunAccess(r, TRUE))
    /\ WF_vars(\E r \in Runs : RunRead(r, "ok"))
    /\ WF_vars(\E r \in Runs, kind \in ChildKinds : RunWrite(r, TRUE, kind))
    /\ WF_vars(\E r \in Runs, code \in ExitCodes \cup {"null"} :
                   PRClose(r, code))
    /\ WF_vars(\E r \in Runs : PRError(r))
    /\ WF_vars(\E r \in Runs : PRKillTimer(r))

FairSpec == Spec /\ Fairness

(* The two servers when the children are left to end by themselves (no     *)
(* stop request, no kill timer), with the fairness of the callbacks that   *)
(* remain.                                                                 *)
LiveInit ==
    /\ InitProgram
    /\ budget = FewRuns
    /\ logs = InitLogs
    /\ ident = NoIdent
    /\ ws = NoWs
    /\ cli = NoCli

LiveNext ==
    \/ \E in \in StartInputs : SessionsStart(in[1], in[2])
    \/ \E l \in Runs : LoopTimerFires(l)
    \/ \E l \in Runs, ok \in BOOLEAN, kind \in ChildKinds :
           UpdateConfigDone(l, ok, kind)
    \/ \E l \in Runs, code \in ExitCodes \cup {"null"} :
           UEClose(l, code)
    \/ \E l \in Runs : UEError(l)
    \/ \E in \in RunInputs : RunRequest(in[1], in[2])
    \/ \E r \in Runs, ok \in BOOLEAN : RunAccess(r, ok)
    \/ \E r \in Runs, o \in {"ok", "noue", "throw"} : RunRead(r, o)
    \/ \E r \in Runs, ok \in BOOLEAN, kind \in ChildKinds :
           RunWrite(r, ok, kind)
    \/ \E r \in Runs, code \in ExitCodes \cup {"null"} : PRClose(r, code)
    \/ \E r \in Runs : PRError(r)

LiveFairness ==
    /\ WF_vars(\E l \in Runs : LoopTimerFires(l))
    /\ WF_vars(\E l \in Runs, kind \in ChildKinds :
                   UpdateConfigDone(l, TRUE, kind))
    /\ WF_vars(\E l \in Runs,
                  code \in ExitCodes \cup {"null"} : UEClose(l, code))
    /\ WF_vars(\E l \in Runs : UEError(l))
    /\ WF_vars(\E r \in Runs : RunAccess(r, TRUE))
    /\ WF_vars(\E r \in Runs : RunRead(r, "ok"))
    /\ WF_vars(\E r \in Runs, kind \in ChildKinds : RunWrite(r, TRUE, kind))
    /\ WF_vars(\E r \in Runs, code \in ExitCodes \cup {"null"} :
                   PRClose(r, code))
    /\ WF_vars(\E r \in Runs : PRError(r))

LiveSpec == LiveInit /\ [][LiveNext]_vars /\ LiveFairness

(* The log buffers of the sequential server under any sequence of addLog   *)
(* calls and clear requests.                                               *)
LogInit ==
    /\ InitProgram
    /\ variant = "sequential"
    /\ budget = 0
    /\ logs = InitLogs
    /\ ident = NoIdent
    /\ ws = NoWs
    /\ cli = NoCli

LogNext ==
    \/ \E type \in LogTypes : Log(type)
    \/ LogsClear

LogSpec == LogInit /\ [][LogNext]_vars

(* The identifier sequencer run from each base with every sequence of      *)
(* increments up to MaxOffset.                                             *)
IdInit ==
    /\ InitProgram
    /\ budget = 0
    /\ logs = InitLogs
    /\ ident \in {StartIdent(b) : b \in IdBases}
    /\ ws = NoWs
    /\ cli = NoCli

IdNext == \E k \in 1..MaxOffset : IdentifierStep(k)

IdSpec == IdInit /\ [][IdNext]_vars

(* The observer registry under any interleaving of connections, socket     *)
(* state changes, close and error events and broadcasts.                   *)
WsInit ==
    /\ InitProgram
    /\ variant = "sequential"
    /\ budget = 0
    /\ logs = InitLogs
    /\ ident = NoIdent
    /\ ws = NoWs
    /\ cli = NoCli

WsNext ==
    \/ \E o \in Observers : WsConnect(o)
    \/ \E o \in Observers, r \in ReadyStates : WsReadyState(o, r)
    \/ \E o \in Observers : WsOnClose(o)
    \/ \E o \in Observers : WsOnError(o)
    \/ Broadcast

WsSpec == WsInit /\ [][WsNext]_vars

(* One invocation of cli.sh with each command word in each environment.    *)
CliInit ==
    /\ InitProgram
    /\ variant = "sequential"
    /\ budget = 0
    /\ logs = InitLogs
    /\ ident = NoIdent
    /\ ws = NoWs
    /\ cli \in {StartCli(command, root, apt, config, gtp5g) :
                   command \in Commands, root \in BOOLEAN, apt \in BOOLEAN,
                   config \in BOOLEAN, gtp5g \in BOOLEAN}

CliNext ==
    \/ CliMain
    \/ \E ok \in BOOLEAN : SetupStep(ok)

CliSpec == CliInit /\ [][CliNext]_vars

(* The multi-UE interval page under any sequence of start and stop clicks, *)
(* interval ticks and fetch results.                                       *)
PageInit ==
    /\ InitProgram
    /\ variant = "direct"
    /\ budget = 0
    /\ logs = InitLogs
    /\ ident = NoIdent
    /\ ws = NoWs
    /\ cli = NoCli

PageNext ==
    \/ \E imsi \in PageImsis, ueCount \in PageCounts : PageStart(imsi, ueCount)
    \/ PageStop
    \/ PageTick
    \/ \E r \in 1..MaxSessions, outcome \in {"ok", "fail", "error"} :
           PageResult(r, outcome)

PageSpec == PageInit /\ [][PageNext]_vars

(* The single-UE interval page under any sequence of start and stop        *)
(* clicks, interval ticks and fetch results.                               *)
SingleNext ==
    \/ \E imsi \in SingleImsis : SingleStart(imsi)
    \/ SingleStop
    \/ SingleTick
    \/ \E outcome \in {"ok", "fail", "error"} : SingleResult(outcome)

SingleSpec == PageInit /\ [][SingleNext]_vars

(* Calls of the terminal-launching runPacketRusher; every callback that is *)
(* ready runs.                                                             *)
LaunchNext ==
    \/ \E c \in Calls : LaunchCall(c)
    \/ \E c \in Calls, error \in BOOLEAN, kind \in ChildKinds :
           LaunchExecDone(c, error, kind)
    \/ \E c \in Calls : LaunchTimer(c)
    \/ \E c \in Calls, code \in ExitCodes \cup {"null"} : LaunchClose(c, code)
    \/ \E c \in Calls : LaunchError(c)
    \/ \E c \in Calls : LaunchKillTimer(c)

LaunchFairness ==
    /\ WF_vars(\E c \in Calls, error \in BOOLEAN, kind \in ChildKinds :
                   LaunchExecDone(c, error, kind))
    /\ WF_vars(\E c \in Calls : LaunchTimer(c))
    /\ WF_vars(\E c \in Calls, code \in ExitCodes \cup {"null"} :
                   LaunchClose(c, code))
    /\ WF_vars(\E c \in Calls : LaunchError(c))
    /\ WF_vars(\E c \in Calls : LaunchKillTimer(c))

LaunchSpec == PageInit /\ [][LaunchNext]_vars /\ LaunchFairness

(* The sequential server with its log buffers: batches that run without a  *)
(* stop request and whose children launch (start, loop timer, config       *)
(* write, child close), addLog calls and clear requests.                   *)
ClearInit ==
    /\ InitProgram
    /\ variant = "sequential"
    /\ budget = FewRuns
    /\ logs = [InitLogs EXCEPT !.limit = FewLogs]
    /\ ident = NoIdent
    /\ ws = NoWs
    /\ cli = NoCli

ClearNext ==
    \/ \E in \in StartInputs : SessionsStart(in[1], in[2])
    \/ \E l \in Runs : LoopTimerFires(l)
    \/ \E l \in Runs, ok \in BOOLEAN, kind \in ChildKinds :
           UpdateConfigDone(l, ok, kind)
    \/ \E l \in Runs, code \in ExitCodes \cup {"null"} :
           UEClose(l, code)
    \/ \E type \in LogTypes : Log(type)
    \/ LogsClear

ClearSpec == ClearInit /\ [][ClearNext]_vars

(* The sequential server when the operator presses Start only while the   *)
(* flag of an earlier stop request is still set and no batch is running;   *)
(* stop requests arrive at any time.                                       *)
StaleNext ==
    \/ SessionsStop
    \/ \E in \in StartInputs :
           /\ serverState.sessionAborted
           /\ \A l \in Runs : loops[l].pc \in {"idle", "done"}
           /\ SessionsStart(in[1], in[2])
    \/ \E l \in Runs : LoopTimerFires(l)
    \/ \E l \in Runs, ok \in BOOLEAN, kind \in ChildKinds :
           UpdateConfigDone(l, ok, kind)
    \/ \E l \in Runs, code \in ExitCodes \cup {"null"} :
           UEClose(l, code)
    \/ \E l \in Runs : UEError(l)
    \/ \E l \in Runs : UEKillTimer(l)

StaleSpec == ClearInit /\ [][StaleNext]_vars

(* The sequential server with its two log buffers: batches, the addLog     *)
(* calls of its handlers and of its loop (lines 644-981: every call leaves *)
(* the type argument out, so the type is "session"), the output of the     *)
(* children and clear requests.                                            *)
OutputNext ==
    \/ \E in \in StartInputs : SessionsStart(in[1], in[2])
    \/ \E l \in Runs : LoopTimerFires(l)
    \/ \E l \in Runs, ok \in BOOLEAN, kind \in ChildKinds :
           UpdateConfigDone(l, ok, kind)
    \/ \E l \in Runs, code \in ExitCodes \cup {"null"} :
           UEClose(l, code)
    \/ \E l \in Runs : UEOutput(l)
    \/ Log("session")
    \/ LogsClear

OutputSpec == ClearInit /\ [][OutputNext]_vars

---------------------------------------------------------------------------
(* Properties. *)

(* A loop call is active from its start to its terminal summary. *)
Active(l) == loops[l].pc \in {"patch", "await"}

(* An invocation is in flight from the spawn until its promise settles. *)
InFlight(k) == proc[k].state = "running" /\ ~proc[k].settled

(* C1: a batch accepted with base B and count N that is neither stopped    *)
(* nor hit by a configuration failure has invoked the Process Runner       *)
(* exactly N times when it ends, and the identifier staged for its i-th    *)
(* invocation was B+i-1, zero-padded.                                      *)
C1_BatchConsumesBToBPlusN ==
    \A l \in Runs :
        (loops[l].pc = "done" /\ ~loops[l].stopped /\ ~loops[l].cfgFailed)
            => (loops[l].started = loops[l].count /\ loops[l].inOrder)

(* C2: at most one runSequentialUEs loop is active at any time. *)
C2_AtMostOneActiveBatch ==
    Cardinality({l \in Runs : Active(l)}) <= 1

(* C3: a start request handled while isRunning is true changes none of     *)
(* currentUeIndex, totalUeCount, currentMsin, sessionAborted and schedules *)
(* no runSequentialUEs call.                                               *)
C3_StartWhileRunningRejected ==
    [][(serverState.isRunning
          /\ \E in \in StartInputs : SessionsStart(in[1], in[2]))
         => /\ serverState'.currentUeIndex = serverState.currentUeIndex
            /\ serverState'.totalUeCount = serverState.totalUeCount
            /\ serverState'.currentMsin = serverState.currentMsin
            /\ serverState'.sessionAborted = serverState.sessionAborted
            /\ loops' = loops]_vars

(* C4: once a stop request has been handled during a batch, that batch     *)
(* starts no further Process Runner invocation.                            *)
C4_NoInvocationAfterStop ==
    [][\A l \in Runs :
          loops[l].stopped => loops'[l].started = loops[l].started]_vars

(* C5: an invocation hands its caller at most one outcome, the one of the  *)
(* first resolve call, however many of 'close', 'error' and the kill timer *)
(* occur; the answer of POST /run carries that outcome.                    *)
C5_SingleResolution ==
    /\ \A k \in Runs :
          /\ proc[k].delivered <= 1
          /\ proc[k].settled => proc[k].value = proc[k].firstValue
    /\ \A r \in Runs :
          reqs[r].status = "200" => reqs[r].result = proc[r].firstValue

(* C5 witness: both the 'error' and the 'close' handler ran for one        *)
(* invocation, and the caller was handed the failure of the first.         *)
C5_Witness ==
    \E k \in Runs :
        /\ proc[k].errorSeen
        /\ proc[k].state = "closed"
        /\ proc[k].delivered = 1
        /\ proc[k].value = "fail"

(* C6: an invocation whose kill timer has fired eventually resolves. *)
C6_ResolvesAfterTimeout ==
    \A k \in Runs : proc[k].processKilled ~> proc[k].settled

(* C7: within a batch an invocation that has not resolved is the one the   *)
(* loop is awaiting: the loop neither patches the configuration for nor    *)
(* starts session n+1 before the invocation of session n has resolved.     *)
C7_NextSessionAfterResolution ==
    \A l \in Runs :
        (variant = "sequential" /\ proc[l].state # "none"
           /\ ~proc[l].settled)
            => /\ loops[l].pc = "await"
               /\ loops[l].i = proc[l].session
               /\ loops[l].started = proc[l].session

(* C7 witness: the loop patches the configuration for session 2 after the  *)
(* invocation of session 1 has resolved.                                   *)
C7_Witness ==
    \E l \in Runs :
        /\ loops[l].pc = "patch"
        /\ loops[l].i = 2
        /\ proc[l].session = 1
        /\ proc[l].settled

(* C8: while an invocation is in flight, ue.msin in the configuration file *)
(* is the value that was staged for it.                                    *)
C8_ConfigWritesSerialized ==
    \A k \in Runs : InFlight(k) => configMsin = proc[k].staged

(* C9: a signal reaches a child only from its own kill timer, and a        *)
(* promise settles only in the 'close' or the 'error' handler of its own   *)
(* child: a stop request does neither.                                     *)
C9_StopDoesNotPreempt ==
    \A k \in Runs :
        /\ proc[k].signals > 0 => proc[k].processKilled
        /\ proc[k].settled => (proc[k].state = "closed" \/ proc[k].errorSeen)

(* C9 witness: a stop request was handled while an invocation of the batch *)
(* was in flight, and the invocation is still in flight, unsignalled.      *)
C9_Witness ==
    \E l \in Runs :
        /\ loops[l].stopped
        /\ InFlight(l)
        /\ proc[l].signals = 0

(* C10: an invocation that resolved through the 'close' handler reports    *)
(* success exactly when the exit code is 0.                                *)
C10_SuccessIffExitCodeZero ==
    \A k \in Runs :
        (proc[k].state = "closed" /\ ~proc[k].errorSeen)
            => (proc[k].value = "ok" <=> proc[k].code = "0")

(* C11: a runSequentialUEs call that has returned having started fewer     *)
(* sessions than totalUeCount met a configuration failure or saw           *)
(* sessionAborted set; a failed session alone never ends the batch.        *)
C11_OnlyConfigFailureOrStopEndsEarly ==
    \A l \in Runs :
        (loops[l].pc = "done" /\ loops[l].started < loops[l].summaryTotal)
            => (loops[l].cfgFailed \/ loops[l].summary = "aborted")

(* C11 witness: session 1 of a batch failed and session 2 was started. *)
C11_Witness ==
    \E l \in Runs :
        /\ loops[l].lastResult = "fail"
        /\ loops[l].pc = "await"
        /\ loops[l].i = 2

(* C12: after updateConfig failed for session i the call has returned, it  *)
(* invoked the Process Runner i-1 times (not for i, not for a later        *)
(* session), isRunning is false unless a later start request was accepted, *)
(* and the server still answers start and stop requests.                   *)
C12_ConfigFailureStopsBatch ==
    \A l \in Runs :
        loops[l].cfgFailed =>
            /\ loops[l].pc = "done"
            /\ loops[l].started = loops[l].i - 1
            /\ (\A m \in Runs : m > l => loops[m].pc = "idle")
                   => ~serverState.isRunning
            /\ ENABLED SessionsStop
            /\ ENABLED (\E in \in StartInputs : SessionsStart(in[1], in[2]))

(* C12 witness: updateConfig failed for session 2, after session 1 ran. *)
C12_Witness ==
    \E l \in Runs :
        /\ loops[l].cfgFailed
        /\ loops[l].i = 2
        /\ loops[l].started = 1

(* C13: an invocation whose 'error' handler ran has resolved, with         *)
(* success false; the loop logged that session as failed and went on to    *)
(* the next iteration, and POST /run answered 200 with success false.      *)
C13_LaunchFailureIsAValue ==
    \A k \in Runs :
        proc[k].errorSeen =>
            /\ proc[k].settled
            /\ proc[k].value = "fail"
            /\ variant = "sequential" =>
                   /\ loops[k].completed = proc[k].session
                   /\ loops[k].lastResult = "fail"
                   /\ loops[k].i = proc[k].session + 1
                   /\ loops[k].pc \in {"patch", "done"}
            /\ variant = "direct" =>
                   /\ reqs[k].status = "200"
                   /\ reqs[k].result = "fail"

(* C13 witness: session 1 could not be launched and the loop is patching   *)
(* the configuration for session 2.                                        *)
C13_Witness ==
    \E l \in Runs :
        /\ proc[l].errorSeen
        /\ proc[l].session = 1
        /\ loops[l].pc = "patch"
        /\ loops[l].i = 2

(* C14: a start request whose ueCount field is 0 is answered 400 and       *)
(* changes neither the run state nor the scheduled loop calls.             *)
C14_ZeroCountRejected ==
    [][(\E in \in StartInputs :
            in[2] = 0 /\ SessionsStart(in[1], in[2]))
         => /\ response' = "400"
            /\ serverState' = serverState
            /\ loops' = loops]_vars

(* Whether a string consists of decimal digits only. *)
IsDecimal(s) == \A j \in 1..Len(s) : s[j] # NonDigit

(* C15: no Process Runner invocation is started for a batch whose base     *)
(* did not parse as a number, and ue.msin holds decimal digits only.       *)
C15_NonDecimalBaseRejected ==
    /\ \A l \in Runs : loops[l].started > 0 => loops[l].base # NaN
    /\ IsDecimal(configMsin)

(* The fields of a start request as submitted are well-formed. *)
StartWellFormed(msinBase, n) ==
    Len(msinBase) = MSIN_WIDTH /\ n >= 1 /\ n <= MAX_UE_COUNT

(* The fields of a POST /run body are well-formed. *)
RunWellFormed(imsi, n) == Len(imsi) = IMSI_LENGTH /\ n >= 1

(* C16: a request whose fields are not well-formed is answered 400 and     *)
(* changes neither the run state, the scheduled loops, the configuration   *)
(* file nor the child processes.                                           *)
C16_InvalidRequestHasNoEffect ==
    [][/\ \A in \in StartInputs :
             (~StartWellFormed(in[1], in[2]) /\ SessionsStart(in[1], in[2]))
                 => /\ response' = "400"
                    /\ UNCHANGED <<serverState, loops, configMsin, proc>>
       /\ \A in \in RunInputs :
             (~RunWellFormed(in[1], in[2]) /\ RunRequest(in[1], in[2]))
                 => /\ reqs'[nStarts + 1].status = "400"
                    /\ UNCHANGED <<configMsin, proc>>]_vars

(* C17: the abort summary of a batch reports the number of sessions whose  *)
(* invocation the loop awaited to its end.                                 *)
C17_AbortSummaryCountsCompleted ==
    \A l \in Runs :
        (loops[l].pc = "done" /\ loops[l].summary = "aborted")
            => loops[l].summaryCount = loops[l].completed

(* C18: every identifier the sequencer derives is as long as its base. *)
C18_IncrementPreservesWidth ==
    ident.base # <<>> => Len(ident.id) = Len(ident.base)

(* C19: deriving the identifiers one from the other in any number of       *)
(* steps gives the identifier derived from the base and the total offset   *)
(* at once, and so does formatting the incremented number.                 *)
C19_IncrementIsAdditive ==
    ident.base # <<>> =>
        /\ ident.id = IdentifierNext(ident.base, ident.offset)
        /\ PadStart(ident.num, MSIN_WIDTH)
               = IdentifierNext(ident.base, ident.offset)

(* C19 witness: two increments with a carry, from 0000000099 by 1 and then *)
(* by 2, gave 0000000102.                                                  *)
C19_Witness ==
    /\ ident.base = FormatMsin(99)
    /\ ident.steps = 2
    /\ ident.offset = 3
    /\ ident.id = FormatMsin(102)

(* The content of a buffer that received n entries since it was emptied:   *)
(* the newest min(n, 100) of them, newest first.                           *)
NewestFirst(buf, n) ==
    /\ Len(buf) = (IF n > LOG_CAP THEN LOG_CAP ELSE n)
    /\ \A j \in 1..Len(buf) : buf[j] = n - j + 1

(* C20: each log buffer holds at most 100 entries, newest first, and they  *)
(* are the newest ones: the oldest entry is the one evicted.               *)
C20_LogBuffersCapped ==
    /\ Len(logs.sessionLogs) <= LOG_CAP
    /\ Len(logs.packetrusherLogs) <= LOG_CAP
    /\ NewestFirst(logs.sessionLogs, logs.added.session)
    /\ NewestFirst(logs.packetrusherLogs, logs.added.packetrusher)

(* C20 witness: a 101st entry was added to sessionLogs. *)
C20_Witness ==
    /\ logs.added.session = LOG_CAP + 1
    /\ Len(logs.sessionLogs) = LOG_CAP
    /\ logs.sessionLogs[LOG_CAP] = 2


(* C21: a broadcast delivers the event to every registered observer whose  *)
(* connection is open and to no other, whatever the state of the others;   *)
(* an observer whose close or error event was handled is out of the        *)
(* registry and receives nothing afterwards.                               *)
C21_BroadcastReachesOpenObservers ==
    [][/\ ws'.events = ws.events + 1 =>
            \A o \in Observers :
                ws'.received[o] =
                    IF o \in Registered(ws) /\ ws.readyState[o] = OPEN
                    THEN Append(ws.received[o], Event(ws'.events))
                    ELSE ws.received[o]
       /\ \A o \in ws'.closeSeen \cup ws'.errorSeen :
            o \notin Registered(ws')
       /\ \A o \in ws.closeSeen \cup ws.errorSeen :
            ws'.received[o] = ws.received[o]]_vars

(* an event was broadcast while one observer was registered but no longer  *)
(* open, and another observer received it                                  *)
C21_Witness ==
    \E o1, o2 \in Observers :
        /\ o1 \in Registered(ws) /\ ws.readyState[o1] = 3
        /\ ws.joinedAt[o1] = 0 /\ ws.received[o1] = <<Welcome>>
        /\ o2 \in Registered(ws) /\ ws.readyState[o2] = OPEN
        /\ ws.joinedAt[o2] = 0 /\ Len(ws.received[o2]) >= 2

(* C22: what an observer has received is the welcome message followed     *)
(* only by events broadcast after it connected.                            *)
C22_OnlyWelcomeAndLaterEvents ==
    \A o \in Observers :
        /\ ws.readyState[o] = 0 => ws.received[o] = <<>>
        /\ ws.readyState[o] # 0 =>
            /\ Len(ws.received[o]) >= 1
            /\ ws.received[o][1] = Welcome
            /\ \A i \in 2..Len(ws.received[o]) :
                /\ ws.received[o][i].kind = "event"
                /\ ws.received[o][i].n > ws.joinedAt[o]

(* an observer connected after an event and received a later one           *)
C22_Witness ==
    \E o \in Observers :
        /\ ws.joinedAt[o] >= 1
        /\ Len(ws.received[o]) >= 2

C25_AtMostOneSignalAndNoneAfterClose ==
    \A k \in Runs :
        /\ proc[k].signals <= 1
        /\ proc[k].signals = 1 => proc[k].processKilled /\ ~proc[k].timerArmed
        /\ proc[k].state = "closed" =>
            ~proc[k].timerArmed /\ proc[k].signals = 0
        /\ proc[k].errorSeen => ~proc[k].timerArmed
        /\ proc[k].timerArmed => proc[k].state = "running"

(* the kill timer fired and the child then ended by the signal             *)
C25_Witness ==
    \E k \in Runs :
        /\ proc[k].state = "closed"
        /\ proc[k].code = "null"
        /\ ~proc[k].timerArmed

(* C26: when a loop has awaited a session to its end, currentMsin is one   *)
(* more if the session succeeded and unchanged if it failed.               *)
C26_MsinAdvancesOnlyOnSuccess ==
    [][\A l \in Runs :
          loops'[l].completed = loops[l].completed + 1 =>
              serverState'.currentMsin =
                  IF loops'[l].lastResult = "ok"
                  THEN NumAdd(serverState.currentMsin, 1)
                  ELSE serverState.currentMsin]_vars

(* C27: while isRunning is false no Process Runner invocation is in flight *)
(* and no loop is scheduled or running.                                    *)
C27_NotRunningMeansIdle ==
    ~serverState.isRunning =>
        \A l \in Runs : ~InFlight(l) /\ loops[l].pc \in {"idle", "done"}

(* C28: 0 <= currentUeIndex <= totalUeCount <= 100000, currentUeIndex is i *)
(* while session i is patched or run, and it does not decrease while no    *)
(* new start request is accepted.                                          *)
C28_IndexWithinBatch ==
    /\ [](/\ 0 <= serverState.currentUeIndex
          /\ serverState.currentUeIndex <= serverState.totalUeCount
          /\ serverState.totalUeCount <= MAX_UE_COUNT
          /\ \A l \in Runs :
                Active(l) => serverState.currentUeIndex = loops[l].i)
    /\ [][nStarts' = nStarts =>
            serverState'.currentUeIndex >= serverState.currentUeIndex]_vars

(* C29: a batch of N from base B that ends without a stop request and      *)
(* without a configuration failure ends with isRunning and sessionAborted  *)
(* false, currentUeIndex = N, currentMsin = B+N and the summary            *)
(* "completed" naming N.                                                   *)
C29_ExhaustedBatchPostcondition ==
    [][\A l \in Runs :
          (/\ loops[l].pc # "done" /\ loops'[l].pc = "done"
           /\ ~loops'[l].stopped /\ ~loops'[l].cfgFailed) =>
              /\ ~serverState'.isRunning
              /\ ~serverState'.sessionAborted
              /\ serverState'.currentUeIndex = loops[l].count
              /\ serverState'.currentMsin =
                     NumAdd(loops[l].base, loops[l].count)
              /\ loops'[l].summary = "completed"
              /\ loops'[l].summaryCount = loops[l].count]_vars

C31_AtMostOneRequestInFlight ==
    Cardinality(InFlightSessions(page)) <= 1

(* C32: for a session the server reported as successful, the MSIN base     *)
(* staged in config.yml for it is the MSIN base the page logged for it.    *)
C32_StagedBaseIsLoggedBase ==
    \A r \in 1..Len(page.sessions) :
        page.sessions[r].state = "ok" =>
            page.sessions[r].staged = page.sessions[r].logged

(* C33: when a session's fetch completes, currentMsinBase and totalUeCount *)
(* grow by the session's ueCount if the result is a success and stay as    *)
(* they are otherwise; no other step changes them once the base is         *)
(* initialised, and baseMsin, once set, never changes.                     *)
C33_BaseAdvancesOnSuccessOnly ==
    [][/\ \A r \in InFlightSessions(page) :
            page'.sessions[r].state # "flight" =>
                IF page'.sessions[r].state = "ok"
                THEN /\ page'.currentMsinBase =
                            page.currentMsinBase + page.sessions[r].ueCount
                     /\ page'.totalUeCount =
                            page.totalUeCount + page.sessions[r].ueCount
                ELSE /\ page'.currentMsinBase = page.currentMsinBase
                     /\ page'.totalUeCount = page.totalUeCount
       /\ page.baseMsin # Null => page'.baseMsin = page.baseMsin
       /\ InFlightSessions(page) \subseteq InFlightSessions(page') =>
            /\ page'.totalUeCount = page.totalUeCount
            /\ page.baseMsin # Null =>
                  page'.currentMsinBase = page.currentMsinBase]_vars

(* after a successful session, a stop and a start with another IMSI, the   *)
(* second session is logged with the base the first one left               *)
C33_Witness ==
    /\ page.starts >= 2
    /\ Len(page.sessions) = 2
    /\ page.sessions[1].state = "ok"
    /\ ParseInt(SliceLast(page.imsi, MSIN_WIDTH)) # page.baseMsin
    /\ page.sessions[2].logged =
          FormatMsin(page.baseMsin + page.sessions[1].ueCount)

(* C34: the IMSIs sent since the latest start are, in order, the entered   *)
(* prefix followed by base, base + 1, base + 2, ..., one per run, whatever *)
(* became of the earlier requests.                                         *)
C34_RunKSendsBasePlusK ==
    /\ Len(single.sent) = single.runCount
    /\ \A k \in 1..Len(single.sent) :
          single.sent[k] =
              SubSeq(single.imsi, 1, MCC_MNC_LENGTH) \o
              FormatMsin(ParseInt(SliceLast(single.imsi, MSIN_WIDTH)) + k - 1)
    /\ \A j, k \in 1..Len(single.sent) :
          j # k => single.sent[j] # single.sent[k]

(* a third run was sent after an earlier one failed and while another is   *)
(* still in flight                                                         *)
C34_Witness ==
    /\ Len(single.sent) = 3
    /\ single.lastResult = "fail"
    /\ single.pending >= 1

(* C35: the launch methods are tried in the order of LaunchMethods, the    *)
(* method that worked is the last one tried, the promise is resolved at    *)
(* most once and by that method, and every call is resolved.               *)
C35_MethodsInOrderAndResolvedOnce ==
    /\ [](\A c \in Calls :
            /\ Len(launch[c].tried) <= Len(LaunchMethods)
            /\ launch[c].tried =
                  SubSeq(LaunchMethods, 1, Len(launch[c].tried))
            /\ launch[c].worked # "none" =>
                  launch[c].worked = launch[c].tried[Len(launch[c].tried)]
            /\ launch[c].p.delivered <= 1
            /\ launch[c].resolvedBy # "none" =>
                  launch[c].resolvedBy = launch[c].worked)
    /\ \A c \in Calls :
          (launch[c].pc # "idle") ~> launch[c].p.settled

(* C36: every POST /run request receives exactly one response: 400 for an  *)
(* invalid IMSI or UE count, 500 when a file step fails, 200 with the      *)
(* runner's outcome otherwise; no child is started for a 400 or a 500.     *)
C36_EveryRunRequestAnsweredOnce ==
    /\ [](\A r \in Runs :
            LET rq == reqs[r]
                invalid == Len(rq.imsi) # IMSI_LENGTH \/ rq.ueCount < 1
            IN  /\ rq.pc = "responded" =>
                      /\ rq.status \in {"400", "500", "200"}
                      /\ (rq.status = "400") <=> invalid
                      /\ rq.status \in {"400", "500"} => proc[r] = NoProc
                      /\ rq.status = "200" =>
                             /\ proc[r].settled
                             /\ rq.result = proc[r].value
                /\ rq.pc # "responded" => rq.status = "none")
    /\ \A r \in Runs :
          (variant = "direct" /\ reqs[r].pc # "idle")
              ~> (reqs[r].pc = "responded")

(* C37: the summary "All UEs completed! Total: N UEs processed" is emitted *)
(* only by a batch whose loop invoked the runner for all N sessions.       *)
C37_CompletedSummaryOnlyAfterAllSessions ==
    \A l \in Runs :
        loops[l].summary = "completed" =>
            loops[l].started = loops[l].summaryTotal

C38_PacketrusherLogsStayEmpty ==
    /\ logs.packetrusherLogs = <<>>
    /\ logs.added.packetrusher = 0

(* output of a running child has been broadcast after an entry was added   *)
(* to sessionLogs                                                          *)
C38_Witness ==
    /\ ws.events >= 1
    /\ Len(logs.sessionLogs) >= 1
    /\ \E l \in Runs : proc[l].state = "running"

============================================================================
